---- MODULE Spec2Model ----
(***************************************************************************)
(* StarSticks: the binding-to-device mapping of the joystick grid view     *)
(* (src/src/gui/joystick_widget.py).                                       *)
(*                                                                         *)
(* Python strings are sequences of one-character strings, so that         *)
(* str.lower, str.find, "in", str.endswith, slicing and int() are computed *)
(* as the code computes them.  None is the empty sequence and a present    *)
(* value v is <<v>>, so that None differs from 0 and from "".             *)
(***************************************************************************)
EXTENDS Integers, Sequences, FiniteSets, TLC

None == <<>>

Some(v) == <<v>>

\* ------------------------------------------------------------------------
\* Python string primitives
\* ------------------------------------------------------------------------

LowerLetters ==
    << "a","b","c","d","e","f","g","h","i","j","k","l","m",
       "n","o","p","q","r","s","t","u","v","w","x","y","z" >>

UpperLetters ==
    << "A","B","C","D","E","F","G","H","I","J","K","L","M",
       "N","O","P","Q","R","S","T","U","V","W","X","Y","Z" >>

Digits == << "0","1","2","3","4","5","6","7","8","9" >>

ToLower == [c \in {UpperLetters[i] : i \in 1..26} |->
               LowerLetters[CHOOSE i \in 1..26 : UpperLetters[i] = c]]

ToUpper == [c \in {LowerLetters[i] : i \in 1..26} |->
               UpperLetters[CHOOSE i \in 1..26 : LowerLetters[i] = c]]

DigitValue == [c \in {Digits[i] : i \in 1..10} |-> (CHOOSE i \in 1..10 : Digits[i] = c) - 1]

\* str.lower() on one character
LowerChar(c) == IF c \in DOMAIN ToLower THEN ToLower[c] ELSE c

\* str.upper() on one character
UpperChar(c) == IF c \in DOMAIN ToUpper THEN ToUpper[c] ELSE c

\* str.lower()
str_lower(s) == [i \in 1..Len(s) |-> LowerChar(s[i])]

\* str.isdigit() on one character
isdigit(c) == c \in DOMAIN DigitValue

IsLetter(c) == c \in DOMAIN ToLower \/ c \in DOMAIN ToUpper

\* pat occurs in s at the 0-based index i
OccursAt(s, pat, i) ==
    /\ i >= 0
    /\ i + Len(pat) <= Len(s)
    /\ \A k \in 1..Len(pat) : s[i + k] = pat[k]

\* the lowest 0-based index >= i at which pat occurs in s, or -1
RECURSIVE find_from(_, _, _)
find_from(s, pat, i) ==
    IF i + Len(pat) > Len(s) THEN -1
    ELSE IF OccursAt(s, pat, i) THEN i
    ELSE find_from(s, pat, i + 1)

\* s.find(pat): the lowest 0-based index of pat in s, or -1
str_find(s, pat) == find_from(s, pat, 0)

\* "pat in s"
str_in(pat, s) == find_from(s, pat, 0) >= 0

\* s.endswith(pat)
str_endswith(s, pat) == Len(pat) <= Len(s) /\ OccursAt(s, pat, Len(s) - Len(pat))

\* s[start:] for 0 <= start
SliceFrom(s, start) == IF start >= Len(s) THEN <<>> ELSE SubSeq(s, start + 1, Len(s))

\* the end (0-based, exclusive) of the run of digits of s that starts at start:
\* "while device_end < len(s) and s[device_end].isdigit(): device_end += 1"
RECURSIVE DigitRunEnd(_, _)
DigitRunEnd(s, e) ==
    IF e < Len(s) /\ isdigit(s[e + 1]) THEN DigitRunEnd(s, e + 1) ELSE e

\* s[start:end] for 0 <= start <= end
Slice(s, start, end) ==
    IF start >= Len(s) \/ end <= start THEN <<>>
    ELSE SubSeq(s, start + 1, IF end > Len(s) THEN Len(s) ELSE end)

RECURSIVE DecimalValue(_)
DecimalValue(ds) ==
    IF ds = <<>> THEN 0
    ELSE 10 * DecimalValue(SubSeq(ds, 1, Len(ds) - 1)) + DigitValue[ds[Len(ds)]]

\* int(text) for a text of decimal digits: the value, or ValueError for ''
py_int(ds) ==
    IF ds = <<>> THEN [exc |-> "ValueError", val |-> None]
    ELSE [exc |-> "", val |-> Some(DecimalValue(ds))]

\* sorted(keys)
RECURSIVE sorted(_)
sorted(S) ==
    IF S = {} THEN <<>>
    ELSE LET m == CHOOSE x \in S : \A y \in S : x <= y
         IN  << m >> \o sorted(S \ {m})

\* list(reversed(ids))
reversed(ids) == [i \in 1..Len(ids) |-> ids[Len(ids) + 1 - i]]

\* ------------------------------------------------------------------------
\* DualJoystickView.parse_input_string
\* ------------------------------------------------------------------------

JS == << "j","s" >>

BUTTON == << "b","u","t","t","o","n" >>

UNDERSCORE == << "_" >>

AXIS_X == << "x" >>

AXIS_Y == << "y" >>

AXIS_Z == << "z" >>

AXIS_ROTX == << "r","o","t","x" >>

AXIS_ROTY == << "r","o","t","y" >>

AXIS_ROTZ == << "r","o","t","z" >>

\* a mutant of axis_names: the one-letter names are tested first
axis_names_short_first == << AXIS_X, AXIS_Y, AXIS_Z, AXIS_ROTX, AXIS_ROTY, AXIS_ROTZ >>

\* "axis_names = ['rotx', 'roty', 'rotz', 'x', 'y', 'z']  # Check longer names first"
axis_names == << AXIS_ROTX, AXIS_ROTY, AXIS_ROTZ, AXIS_X, AXIS_Y, AXIS_Z >>

NoValue == [exc |-> "", val |-> None]

\* a mutant of digits_at: only the first digit is read
digits_at_one(s, start) ==
    IF start < Len(s) /\ isdigit(s[start + 1]) THEN << s[start + 1] >> ELSE <<>>

\* the run of digits of s that starts at the 0-based index start:
\* s[device_start:device_end], and button_num
digits_at(s, start) == Slice(s, start, DigitRunEnd(s, start))

\* a mutant of except_ValueError: the try has no except, the ValueError of
\* int('') leaves the function
except_ValueError_missing(r) == r

\* a mutant of except_ValueError: the handler sets the field to 0
except_ValueError_zero(r) ==
    IF r.exc = "ValueError" THEN [exc |-> "", val |-> Some(0)] ELSE r

\* "except (ValueError, IndexError): pass": the field keeps its None
except_ValueError(r) == IF r.exc = "ValueError" THEN NoValue ELSE r

\* a mutant of extract_sc_js_number: the "if 'js' in input_lower" guard is
\* missing, so find() may give -1 and the digits are read from index 1
extract_sc_js_number_no_guard(input_lower) ==
    except_ValueError(py_int(digits_at(input_lower, str_find(input_lower, JS) + 2)))

\* a mutant of extract_sc_js_number: the try block is missing, the ValueError
\* of int('') leaves the function
extract_sc_js_number_no_try(input_lower) ==
    IF ~str_in(JS, input_lower) THEN NoValue
    ELSE py_int(digits_at(input_lower, str_find(input_lower, JS) + 2))

\* "Extract device number (js1, js2, etc.)": the digits after the first "js"
extract_sc_js_number(input_lower) ==
    IF ~str_in(JS, input_lower) THEN NoValue
    ELSE except_ValueError(py_int(digits_at(input_lower, str_find(input_lower, JS) + 2)))

\* "if button_num: result['button'] = int(button_num)"
button_of(button_num) ==
    IF button_num = <<>> THEN NoValue ELSE except_ValueError(py_int(button_num))

\* a mutant of extract_button: the digits are read one place early, from the
\* "n" of "button"
extract_button_off_by_one(input_lower) ==
    IF ~str_in(BUTTON, input_lower) THEN NoValue
    ELSE button_of(digits_at(input_lower, str_find(input_lower, BUTTON) + 5))

\* "Extract button number": the digits after the first "button", if any
extract_button(input_lower) ==
    IF ~str_in(BUTTON, input_lower) THEN NoValue
    ELSE button_of(digits_at(input_lower, str_find(input_lower, BUTTON) + 6))

\* a mutant of axis_matches: only the end of the token is tested
axis_matches_suffix_only(input_lower, axis) == str_endswith(input_lower, axis)

\* "if f'_{axis}' in input_lower or input_lower.endswith(axis)"
axis_matches(input_lower, axis) ==
    str_in(UNDERSCORE \o axis, input_lower) \/ str_endswith(input_lower, axis)

\* the 1-based place in axis_names of the first name that matches, 0 if none
RECURSIVE first_axis_match(_, _)
first_axis_match(input_lower, i) ==
    IF i > Len(axis_names) THEN 0
    ELSE IF axis_matches(input_lower, axis_names[i]) THEN i
    ELSE first_axis_match(input_lower, i + 1)

axis_at(i) == IF i = 0 THEN None ELSE Some(axis_names[i])

\* a mutant of extract_axis: the axis names are tested only when the token has
\* no "button"
extract_axis_unless_button(input_lower) ==
    IF str_in(BUTTON, input_lower) THEN None
    ELSE axis_at(first_axis_match(input_lower, 1))

\* "Extract axis name": "for axis in axis_names: if ...: result['axis'] = axis; break"
extract_axis(input_lower) == axis_at(first_axis_match(input_lower, 1))

\* the result dictionary; exc names the exception that left the function, ""
\* when it returned
parse_result(js, btn, axis) ==
    IF js.exc # ""
    THEN [exc |-> js.exc, sc_js_number |-> None, button |-> None, axis |-> None]
    ELSE IF btn.exc # ""
    THEN [exc |-> btn.exc, sc_js_number |-> js.val, button |-> None, axis |-> None]
    ELSE [exc |-> "", sc_js_number |-> js.val, button |-> btn.val, axis |-> axis]

parse_lower(input_lower) ==
    parse_result(extract_sc_js_number(input_lower), extract_button(input_lower),
                 extract_axis(input_lower))

\* DualJoystickView.parse_input_string
parse_input_string(input_str) ==
    IF input_str = <<>>
    THEN [exc |-> "", sc_js_number |-> None, button |-> None, axis |-> None]
    ELSE parse_lower(str_lower(input_str))

\* ------------------------------------------------------------------------
\* Inputs: detection snapshots, binding records, tokens
\* ------------------------------------------------------------------------

\* the largest pygame id of a detection snapshot
MaxId == 2

\* the longest batch of binding records handed to update_bindings
MaxBatch == 2

\* the most atoms a token is made of
MaxAtoms == 3

\* the most swap commands between two routing passes
MaxToggles == 2

NAME_LEFT == << "V","P","C"," ","L","E","F","T" >>

NAME_RIGHT == << "v","p","c"," ","r","i","g","h","t" >>

NAME_OTHER == << "s","t","i","c","k" >>

\* the device the input layer reports under an id: name, buttons, axes
Hardware(id) ==
    [id      |-> id,
     name    |-> IF id = 0 THEN NAME_LEFT ELSE IF id = 1 THEN NAME_RIGHT ELSE NAME_OTHER,
     buttons |-> IF id = 1 THEN 0 ELSE 2,
     axes    |-> IF id = 0 THEN 0 ELSE 4]

\* JoystickDetector.detect: "for i in range(joystick_count)", in ascending
\* order, a device whose initialisation raises pygame.error being left out
DetectOf(ids) == LET order == sorted(ids) IN [i \in 1..Len(order) |-> Hardware(order[i])]

Snapshots == { DetectOf(ids) : ids \in SUBSET (0..MaxId) }

AllJoysticks == DetectOf(0..MaxId)

\* a device that reports a hat switch only, neither buttons nor axes
Bare == [id |-> 0, name |-> NAME_OTHER, buttons |-> 0, axes |-> 0]

\* what detect can return when the devices on the bus change between two
\* detections
Detections == Snapshots \cup { << Bare >> }

V_FIRE == << "v","_","f","i","r","e" >>

V_BOOST == << "v","_","b","o","o","s","t" >>

A_JS == << "j","s" >>

A_JS1 == << "j","s","1" >>

A_JS2_UPPER == << "J","S","2" >>

A_0 == << "0" >>

A_BUTTON == << "_","b","u","t","t","o","n" >>

A_BUTTON1 == << "_","b","u","t","t","o","n","1" >>

A_X == << "_","x" >>

A_ROTX == << "_","r","o","t","x" >>

A_ROTY == << "_","r","o","t","y" >>

A_Z == << "z" >>

\* the pieces tokens are made of
Atoms == { A_JS, A_JS1, A_JS2_UPPER, A_0, A_BUTTON, A_BUTTON1, A_X, A_ROTX, A_ROTY, A_Z }

RECURSIVE TokensOfLen(_)
TokensOfLen(n) ==
    IF n = 0 THEN { <<>> }
    ELSE { t \o a : t \in TokensOfLen(n - 1), a \in Atoms }

\* every concatenation of at most MaxAtoms atoms
Tokens == UNION { TokensOfLen(n) : n \in 0..MaxAtoms }

Binding(action, input) == [action |-> action, input |-> input]

\* the binding records of the batches: a button of slot 1, an axis of slot 2
\* (in upper case), a button of slot 3, a second action on the button of slot 1
\* (with an axis suffix), a slot without a control, "js" without digits, an
\* empty token
RouteRecords ==
    { Binding(V_FIRE,  A_JS1 \o A_BUTTON1),
      Binding(V_BOOST, A_JS2_UPPER \o A_X),
      Binding(V_FIRE,  A_JS \o << "3" >> \o A_BUTTON1),
      Binding(V_BOOST, A_JS1 \o A_BUTTON1 \o A_X),
      Binding(V_FIRE,  A_JS1),
      Binding(V_BOOST, A_JS \o A_X),
      Binding(V_FIRE,  <<>>) }

RECURSIVE BatchesOfLen(_)
BatchesOfLen(n) ==
    IF n = 0 THEN { <<>> }
    ELSE { b \o << r >> : b \in BatchesOfLen(n - 1), r \in RouteRecords }

Batches == UNION { BatchesOfLen(n) : n \in 0..MaxBatch }

\* the input strings and the action names of the model
Inputs == Tokens \cup { r.input : r \in RouteRecords }

ActionNames == { V_FIRE, V_BOOST }

\* parse_input_string on the inputs of the model, as a table computed once:
\* parse_table[t] = parse_input_string(t)
parse_table == [t \in Inputs |-> parse_input_string(t)] @@ <<>>

\* ------------------------------------------------------------------------
\* JoystickButton, JoystickVisualization
\* ------------------------------------------------------------------------

\* JoystickButton.__init__
JoystickButton(button_number) ==
    [button_number |-> button_number, binding_action |-> None, is_pressed |-> FALSE]

\* JoystickButton.set_binding
set_binding(btn, action) == [btn EXCEPT !.binding_action = Some(action)]

\* JoystickButton.clear_binding
clear_binding(btn) == [btn EXCEPT !.binding_action = None]

\* a mutant of set_pressed: a button that is pressed loses its binding
set_pressed_unbinds(btn, pressed) ==
    IF btn.is_pressed # pressed
    THEN [btn EXCEPT !.is_pressed = pressed, !.binding_action = None]
    ELSE btn

\* JoystickButton.set_pressed
set_pressed(btn, pressed) ==
    IF btn.is_pressed # pressed THEN [btn EXCEPT !.is_pressed = pressed] ELSE btn

\* JoystickVisualization.__init__ and init_ui: one button widget per button
\* (numbered from 1), one axis row per axis (numbered from 0) whose binding
\* label starts as ""
JoystickVisualization(joy) ==
    [joystick_name  |-> joy.name,
     joystick_id    |-> joy.id,
     num_buttons    |-> joy.buttons,
     num_axes       |-> joy.axes,
     button_widgets |-> [b \in 1..joy.buttons |-> JoystickButton(b)],
     axis_widgets   |-> [a \in 0..(joy.axes - 1) |-> [bar |-> 0, binding |-> <<>>]],
     deleted        |-> FALSE]

\* QWidget.deleteLater: the widget and its child widgets (the buttons, the
\* bars and labels of the axes) are destroyed when control returns to the
\* event loop, i.e. before the next handler runs; the Python object, with its
\* attributes, stays
deleteLater(viz) == [viz EXCEPT !.deleted = TRUE]

\* a call into a destroyed widget raises RuntimeError ("wrapped C/C++ object
\* ... has been deleted"): clear_all_bindings makes one such call per button
\* (clear_binding -> update_display -> setStyleSheet) and per axis (setText)
clear_all_bindings_raises(viz) ==
    viz.deleted /\ (DOMAIN viz.button_widgets # {} \/ DOMAIN viz.axis_widgets # {})

\* str.replace(old, new): the occurrences of old, left to right, not overlapping
RECURSIVE str_replace(_, _, _)
str_replace(s, old, new) ==
    IF s = <<>> THEN <<>>
    ELSE IF OccursAt(s, old, 0)
         THEN new \o str_replace(SliceFrom(s, Len(old)), old, new)
         ELSE << s[1] >> \o str_replace(Tail(s), old, new)

\* str.title(): a letter that follows a letter is lowered, any other letter raised
str_title(s) ==
    [i \in 1..Len(s) |->
        IF IsLetter(s[i])
        THEN IF i > 1 /\ IsLetter(s[i - 1]) THEN LowerChar(s[i]) ELSE UpperChar(s[i])
        ELSE s[i]]

\* "if len(action) > 30: action = action[:27] + '...'"
limit_length(action) ==
    IF Len(action) > 30 THEN SubSeq(action, 1, 27) \o << ".", ".", "." >> ELSE action

\* JoystickVisualization.format_action_name
format_action_name(action) ==
    limit_length(str_title(str_replace(
        str_replace(str_replace(action, << "v","_" >>, <<>>),
                    << "s","p","a","c","e","s","h","i","p","_" >>, <<>>),
        UNDERSCORE, << " " >>)))

\* format_action_name on the action names of the model, as a table computed
\* once: format_table[a] = format_action_name(a)
format_table == [a \in ActionNames |-> format_action_name(a)] @@ <<>>

\* JoystickVisualization.set_button_binding
set_button_binding(viz, button_number, action) ==
    IF button_number \in DOMAIN viz.button_widgets
    THEN [viz EXCEPT !.button_widgets[button_number] = set_binding(@, format_table[action])]
    ELSE viz

\* JoystickVisualization.set_axis_binding
set_axis_binding(viz, axis_number, action) ==
    IF axis_number \in DOMAIN viz.axis_widgets
    THEN [viz EXCEPT !.axis_widgets[axis_number].binding = format_table[action]]
    ELSE viz

\* JoystickVisualization.clear_all_bindings
\* (on a destroyed widget the first button has its binding_action set to None
\* before its update_display raises)
clear_all_bindings(viz) ==
    IF clear_all_bindings_raises(viz)
    THEN [viz EXCEPT
            !.button_widgets = [b \in DOMAIN viz.button_widgets |->
                                   IF b = 1 THEN clear_binding(viz.button_widgets[b])
                                   ELSE viz.button_widgets[b]]]
    ELSE [viz EXCEPT
            !.button_widgets = [b \in DOMAIN viz.button_widgets |-> clear_binding(viz.button_widgets[b])],
            !.axis_widgets   = [a \in DOMAIN viz.axis_widgets |->
                                   [viz.axis_widgets[a] EXCEPT !.binding = <<>>]]]

\* JoystickVisualization.poll_joystick, down being the pygame button indices
\* the device reports as pressed and value the position of each axis in
\* hundredths ("bar_value = int(axis_value * 100)"): button number n shows the
\* state of the pygame button n - 1, each bar the position of its axis. (The
\* text of the value label follows the bar and is not part of the model, as
\* the texts and style sheets of the buttons are not.)
poll_joystick(viz, down, value) ==
    [viz EXCEPT
        !.button_widgets = [b \in DOMAIN viz.button_widgets |->
                               IF b - 1 < viz.num_buttons
                               THEN set_pressed(viz.button_widgets[b], (b - 1) \in down)
                               ELSE viz.button_widgets[b]],
        !.axis_widgets   = [a \in DOMAIN viz.axis_widgets |->
                               IF a < viz.num_axes
                               THEN [viz.axis_widgets[a] EXCEPT !.bar = value[a]]
                               ELSE viz.axis_widgets[a]]]

\* ------------------------------------------------------------------------
\* DualJoystickView
\* ------------------------------------------------------------------------

\* DualJoystickView.__init__
DualJoystickView == [stick_visualizations |-> <<>>, mapping_swapped |-> FALSE]

\* a mutant of set_joysticks: a device whose id the view already shows keeps
\* its visualization
set_joysticks_keeps_known(self, joysticks) ==
    IF joysticks = <<>>
    THEN [self EXCEPT !.stick_visualizations =
            [id \in DOMAIN self.stick_visualizations |->
                deleteLater(self.stick_visualizations[id])]]
    ELSE [self EXCEPT !.stick_visualizations =
            [id \in {joysticks[i].id : i \in 1..Len(joysticks)} |->
                IF id \in DOMAIN self.stick_visualizations
                THEN self.stick_visualizations[id]
                ELSE JoystickVisualization(
                        joysticks[CHOOSE i \in 1..Len(joysticks) : joysticks[i].id = id])]]

\* DualJoystickView.set_joysticks: every widget of the layout is handed to
\* deleteLater; an empty list then shows the placeholder and returns before
\* the previous mappings are cleared, so that stick_visualizations keeps the
\* destroyed widgets
set_joysticks(self, joysticks) ==
    IF joysticks = <<>>
    THEN [self EXCEPT !.stick_visualizations =
            [id \in DOMAIN self.stick_visualizations |->
                deleteLater(self.stick_visualizations[id])]]
    ELSE [self EXCEPT !.stick_visualizations =
            [id \in {joysticks[i].id : i \in 1..Len(joysticks)} |->
                LET last == CHOOSE i \in 1..Len(joysticks) :
                               /\ joysticks[i].id = id
                               /\ \A j \in (i + 1)..Len(joysticks) : joysticks[j].id # id
                IN  JoystickVisualization(joysticks[last])]]

\* a mutant of swap_joystick_mapping: the flag is set, not toggled
swap_joystick_mapping_sets(self) == [self EXCEPT !.mapping_swapped = TRUE]

\* a mutant of swap_joystick_mapping: the flag is toggled only if two devices
\* or more are live
swap_joystick_mapping_if_two(self) ==
    [self EXCEPT !.mapping_swapped =
        IF Cardinality(DOMAIN self.stick_visualizations) >= 2 THEN ~self.mapping_swapped
        ELSE self.mapping_swapped]

\* DualJoystickView.swap_joystick_mapping
swap_joystick_mapping(self) == [self EXCEPT !.mapping_swapped = ~self.mapping_swapped]

\* a mutant of apply_swap: the flag is cleared once the swap is applied
apply_swap_once(mapping_swapped, available_pygame_ids) ==
    IF mapping_swapped /\ Len(available_pygame_ids) >= 2
    THEN [available_pygame_ids |-> reversed(available_pygame_ids), mapping_swapped |-> FALSE]
    ELSE [available_pygame_ids |-> available_pygame_ids, mapping_swapped |-> mapping_swapped]

\* a mutant of apply_swap: the flag is not read
apply_swap_never(mapping_swapped, available_pygame_ids) ==
    [available_pygame_ids |-> available_pygame_ids, mapping_swapped |-> mapping_swapped]

\* "Apply swap if user has toggled it": the local list is rebound, the flag
\* mapping_swapped is read and left as it is
\* a mutant of apply_swap: the first two ids change places, the others stay
apply_swap_first_two(mapping_swapped, available_pygame_ids) ==
    IF mapping_swapped /\ Len(available_pygame_ids) >= 2
    THEN [available_pygame_ids |->
              << available_pygame_ids[2], available_pygame_ids[1] >>
                 \o SubSeq(available_pygame_ids, 3, Len(available_pygame_ids)),
          mapping_swapped |-> mapping_swapped]
    ELSE [available_pygame_ids |-> available_pygame_ids,
          mapping_swapped |-> mapping_swapped]

\* a mutant of apply_swap: the list is reversed from three devices on
apply_swap_three(mapping_swapped, available_pygame_ids) ==
    IF mapping_swapped /\ Len(available_pygame_ids) >= 3
    THEN [available_pygame_ids |-> reversed(available_pygame_ids),
          mapping_swapped |-> mapping_swapped]
    ELSE [available_pygame_ids |-> available_pygame_ids,
          mapping_swapped |-> mapping_swapped]

apply_swap(mapping_swapped, available_pygame_ids) ==
    IF mapping_swapped /\ Len(available_pygame_ids) >= 2
    THEN [available_pygame_ids |-> reversed(available_pygame_ids), mapping_swapped |-> mapping_swapped]
    ELSE [available_pygame_ids |-> available_pygame_ids, mapping_swapped |-> mapping_swapped]

\* a mutant of build_sc_to_pygame_map: the slot is the pygame id plus one (as
\* the binding summary has it, "pygame_id = sc_js - 1")
build_sc_to_pygame_map_by_id(available_pygame_ids) ==
    [sc_js_number \in {available_pygame_ids[i] + 1 : i \in 1..Len(available_pygame_ids)} |->
        sc_js_number - 1]

\* "Create mapping: SC js1 -> first available ID, js2 -> second available ID"
build_sc_to_pygame_map(available_pygame_ids) ==
    [sc_js_number \in {i + 1 : i \in 0..(Len(available_pygame_ids) - 1)} |->
        available_pygame_ids[sc_js_number]]

\* a mutant of sc_to_pygame_map_get: a slot that is not mapped falls back to the
\* pygame id sc_js_number - 1
sc_to_pygame_map_get_fallback(sc_to_pygame_map, sc_js_number) ==
    IF sc_js_number \in DOMAIN sc_to_pygame_map
    THEN Some(sc_to_pygame_map[sc_js_number])
    ELSE Some(sc_js_number - 1)

\* "pygame_id = sc_to_pygame_map.get(sc_js_number)"
sc_to_pygame_map_get(sc_to_pygame_map, sc_js_number) ==
    IF sc_js_number \in DOMAIN sc_to_pygame_map
    THEN Some(sc_to_pygame_map[sc_js_number])
    ELSE None

\* "axis_map = {'x': 0, 'y': 1, 'z': 2, 'rotx': 3, 'roty': 4, 'rotz': 5}", .get
axis_map_get(axis_name) ==
    CASE axis_name = AXIS_X    -> Some(0)
      [] axis_name = AXIS_Y    -> Some(1)
      [] axis_name = AXIS_Z    -> Some(2)
      [] axis_name = AXIS_ROTX -> Some(3)
      [] axis_name = AXIS_ROTY -> Some(4)
      [] axis_name = AXIS_ROTZ -> Some(5)
      [] OTHER                 -> None

\* a mutant of track_binding: the count of a slot is set to 1, not incremented
track_binding_sets(bindings_per_device, sc_js_number) ==
    [n \in (DOMAIN bindings_per_device) \cup {sc_js_number} |->
        IF n = sc_js_number THEN 1 ELSE bindings_per_device[n]]

\* "Track this binding": bindings_per_device[sc_js_number] += 1, from 0
track_binding(bindings_per_device, sc_js_number) ==
    [n \in (DOMAIN bindings_per_device) \cup {sc_js_number} |->
        IF n = sc_js_number
        THEN (IF n \in DOMAIN bindings_per_device THEN bindings_per_device[n] ELSE 0) + 1
        ELSE bindings_per_device[n]]

\* "if button_num is not None: viz.set_button_binding(button_num, action)
\*  elif axis_name is not None: ... if axis_index is not None: viz.set_axis_binding"
axis_binding(viz, axis_index, action) ==
    IF axis_index # None THEN set_axis_binding(viz, axis_index[1], action) ELSE viz

\* a mutant of apply_binding: "if ... if" for "if ... elif", the axis is bound
\* also when the record has a button
apply_binding_both(viz, parsed, action) ==
    IF parsed.axis # None
    THEN axis_binding(IF parsed.button # None
                      THEN set_button_binding(viz, parsed.button[1], action) ELSE viz,
                      axis_map_get(parsed.axis[1]), action)
    ELSE IF parsed.button # None THEN set_button_binding(viz, parsed.button[1], action)
    ELSE viz

apply_binding(viz, parsed, action) ==
    IF parsed.button # None THEN set_button_binding(viz, parsed.button[1], action)
    ELSE IF parsed.axis # None THEN axis_binding(viz, axis_map_get(parsed.axis[1]), action)
    ELSE viz

\* "viz = self.stick_visualizations.get(pygame_id); if not viz: continue", then
\* the binding is tracked and applied
route_to(st, binding, parsed, pygame_id) ==
    IF pygame_id = None THEN st
    ELSE IF pygame_id[1] \notin DOMAIN st.stick_visualizations THEN st
    ELSE [st EXCEPT
            !.stick_visualizations[pygame_id[1]] = apply_binding(@, parsed, binding.action),
            !.bindings_per_device = track_binding(@, parsed.sc_js_number[1])]

\* "if sc_js_number is None: continue"
route_parsed(st, sc_to_pygame_map, binding, parsed) ==
    IF parsed.exc # "" THEN [st EXCEPT !.exc = parsed.exc]
    ELSE IF parsed.sc_js_number = None THEN st
    ELSE route_to(st, binding, parsed,
                  sc_to_pygame_map_get(sc_to_pygame_map, parsed.sc_js_number[1]))

\* one pass of the loop "for binding in bindings"; st.exc names an exception
\* that left the loop
route_record(st, sc_to_pygame_map, binding) ==
    route_parsed(st, sc_to_pygame_map, binding, parse_table[binding.input])

\* a mutant of route_all: the records are applied last to first
RECURSIVE route_all_last_first(_, _, _)
route_all_last_first(st, sc_to_pygame_map, bindings) ==
    IF bindings = <<>> THEN st
    ELSE IF route_all_last_first(st, sc_to_pygame_map, Tail(bindings)).exc # ""
         THEN route_all_last_first(st, sc_to_pygame_map, Tail(bindings))
         ELSE route_record(route_all_last_first(st, sc_to_pygame_map, Tail(bindings)),
                           sc_to_pygame_map, Head(bindings))

\* the loop "for binding in bindings"
RECURSIVE route_all(_, _, _)
route_all(st, sc_to_pygame_map, bindings) ==
    IF bindings = <<>> \/ st.exc # "" THEN st
    ELSE route_all(route_record(st, sc_to_pygame_map, Head(bindings)),
                   sc_to_pygame_map, Tail(bindings))

\* a mutant of clear_visualizations: nothing is cleared
clear_visualizations_none(stick_visualizations) == stick_visualizations

\* "Clear all existing bindings first": the loop over the values of the
\* dictionary, in the order of insertion (ascending ids, as detect lists
\* them), up to the first widget whose clear_all_bindings raises
clear_visualizations(stick_visualizations) ==
    [id \in DOMAIN stick_visualizations |->
        IF \E before \in DOMAIN stick_visualizations :
              before < id /\ clear_all_bindings_raises(stick_visualizations[before])
        THEN stick_visualizations[id]
        ELSE clear_all_bindings(stick_visualizations[id])]

\* the exception that leaves that loop, if any
clear_visualizations_exc(stick_visualizations) ==
    IF \E id \in DOMAIN stick_visualizations :
          clear_all_bindings_raises(stick_visualizations[id])
    THEN "RuntimeError"
    ELSE ""

\* what update_bindings leaves: the view (self), the locals sc_to_pygame_map
\* and bindings_per_device it prints, the value it returns (there is no return
\* statement) and the exception that left it
update_result(swap, sc_to_pygame_map, looped) ==
    [self                |-> [stick_visualizations |-> looped.stick_visualizations,
                              mapping_swapped      |-> swap.mapping_swapped],
     sc_to_pygame_map    |-> sc_to_pygame_map,
     bindings_per_device |-> looped.bindings_per_device,
     returned            |-> None,
     exc                 |-> looped.exc]

update_routed(cleared, swap, sc_to_pygame_map, bindings) ==
    update_result(swap, sc_to_pygame_map,
                  route_all([stick_visualizations |-> cleared,
                             bindings_per_device  |-> <<>>,
                             exc                  |-> ""],
                            sc_to_pygame_map, bindings))

update_swapped(cleared, swap, bindings) ==
    update_routed(cleared, swap, build_sc_to_pygame_map(swap.available_pygame_ids), bindings)

\* update_bindings left by an exception of the clearing loop: no slot map
\* built, no record routed
update_raised(self, cleared, exc) ==
    [self                |-> [self EXCEPT !.stick_visualizations = cleared],
     sc_to_pygame_map    |-> << >>,
     bindings_per_device |-> << >>,
     returned            |-> None,
     exc                 |-> exc]

\* DualJoystickView.update_bindings
update_bindings(self, bindings) ==
    IF clear_visualizations_exc(self.stick_visualizations) # ""
    THEN update_raised(self, clear_visualizations(self.stick_visualizations),
                       clear_visualizations_exc(self.stick_visualizations))
    ELSE update_swapped(clear_visualizations(self.stick_visualizations),
                        apply_swap(self.mapping_swapped, sorted(DOMAIN self.stick_visualizations)),
                        bindings)

\* ------------------------------------------------------------------------
\* BindingParser
\* ------------------------------------------------------------------------

KB == << "k","b" >>

MOUSE == << "m","o","u","s","e" >>

KB1_SPACE == << "k","b","1","_","s","p","a","c","e" >>

\* "bindings = {'joystick_bindings': [], 'keyboard_bindings': [], 'mouse_bindings': []}"
EmptyBindings ==
    [joystick_bindings |-> << >>, keyboard_bindings |-> << >>, mouse_bindings |-> << >>]

\* ET.parse(file_path): the tree, or ParseError for a file that is not
\* well-formed XML
ET_parse(file) ==
    IF file.well_formed THEN [exc |-> "", rebinds |-> file.rebinds]
    ELSE [exc |-> "ParseError", rebinds |-> << >>]

\* one rebind element: "if 'js' in input_type.lower(): ... elif 'kb' ... elif
\* 'mouse' ..."; the multiTap attribute, which nothing reads, is left out
add_rebind_lower(b, rebind, input_lower) ==
    IF str_in(JS, input_lower)
    THEN [b EXCEPT !.joystick_bindings = Append(@, Binding(rebind.action, rebind.input))]
    ELSE IF str_in(KB, input_lower)
    THEN [b EXCEPT !.keyboard_bindings = Append(@, Binding(rebind.action, rebind.input))]
    ELSE IF str_in(MOUSE, input_lower)
    THEN [b EXCEPT !.mouse_bindings = Append(@, Binding(rebind.action, rebind.input))]
    ELSE b

add_rebind(b, rebind) == add_rebind_lower(b, rebind, str_lower(rebind.input))

\* "for action in root.findall('.//action'): for rebind in action.findall('.//rebind')"
RECURSIVE add_rebinds(_, _, _)
add_rebinds(b, rebinds, i) ==
    IF i > Len(rebinds) THEN b
    ELSE add_rebinds(add_rebind(b, rebinds[i]), rebinds, i + 1)

\* the body of the try of parse_binding_file
parse_tree(tree) ==
    IF tree.exc # "" THEN [exc |-> tree.exc, bindings |-> EmptyBindings]
    ELSE [exc |-> "", bindings |-> add_rebinds(EmptyBindings, tree.rebinds, 1)]

\* a mutant of except_Exception: the try has no except
except_Exception_missing(r) == r

\* "except ET.ParseError ... except Exception ...: print(...)", then
\* "return bindings"
except_Exception(r) == [r EXCEPT !.exc = ""]

\* BindingParser.parse_binding_file
parse_binding_file(file) == except_Exception(parse_tree(ET_parse(file)))

\* BindingParser.load_bindings: {} without a bindings path or without files,
\* else the bindings of the first file
load_bindings(profile) ==
    IF ~profile.path THEN [exc |-> "", bindings |-> << >>]
    ELSE IF profile.files = << >> THEN [exc |-> "", bindings |-> << >>]
    ELSE parse_binding_file(profile.files[1])

\* the binding files: one that is not well-formed XML, one without rebinds,
\* one with a keyboard rebind only, two with joystick rebinds
F_MALFORMED ==
    [well_formed |-> FALSE, rebinds |-> << Binding(V_FIRE, A_JS1 \o A_BUTTON1) >>]

F_EMPTY == [well_formed |-> TRUE, rebinds |-> << >>]

F_KEYBOARD == [well_formed |-> TRUE, rebinds |-> << Binding(V_FIRE, KB1_SPACE) >>]

F_BASIC ==
    [well_formed |-> TRUE,
     rebinds |-> << Binding(V_FIRE, A_JS1 \o A_BUTTON1),
                    Binding(V_BOOST, A_JS2_UPPER \o A_X) >>]

F_MIXED ==
    [well_formed |-> TRUE,
     rebinds |-> << Binding(V_BOOST, A_JS1 \o A_BUTTON1 \o A_X),
                    Binding(V_FIRE, KB1_SPACE),
                    Binding(V_FIRE, A_JS2_UPPER \o A_X) >>]

Files == { F_MALFORMED, F_EMPTY, F_KEYBOARD, F_BASIC, F_MIXED }

\* an instance without a bindings path
NoInstance == [path |-> FALSE, files |-> << >>]

\* what the selected instance has on disk: no bindings path, a path without
\* files, a path with one file, a path with two
Profiles ==
    { NoInstance, [path |-> TRUE, files |-> << >>] }
       \cup { [path |-> TRUE, files |-> << f >>] : f \in Files }
       \cup { [path |-> TRUE, files |-> << F_BASIC, F_MALFORMED >>] }

\* ------------------------------------------------------------------------
\* DualVisualJoystickView
\* ------------------------------------------------------------------------

LEFT == << "l","e","f","t" >>

RIGHT == << "r","i","g","h","t" >>

\* d[k] = v on a dictionary
dict_put(d, k, v) == [x \in (DOMAIN d) \cup {k} |-> IF x = k THEN v ELSE d[x]]

\* DualVisualJoystickView.__init__
DualVisualJoystickView == [left_bindings |-> << >>, right_bindings |-> << >>, stick_ids |-> << >>]

\* the side of one joystick: by its name, else "first one is left, second is right"
side_of(stick_ids, name_lower) ==
    IF str_in(LEFT, name_lower) THEN "left"
    ELSE IF str_in(RIGHT, name_lower) THEN "right"
    ELSE IF ~(\E k \in DOMAIN stick_ids : stick_ids[k] = "left") THEN "left"
    ELSE "right"

\* "for joy in joysticks"
RECURSIVE assign_sides(_, _, _)
assign_sides(stick_ids, joysticks, i) ==
    IF i > Len(joysticks) THEN stick_ids
    ELSE assign_sides(dict_put(stick_ids, joysticks[i].id,
                               side_of(stick_ids, str_lower(joysticks[i].name))),
                      joysticks, i + 1)

\* DualVisualJoystickView.set_joysticks
visual_set_joysticks(self, joysticks) ==
    [self EXCEPT !.stick_ids = assign_sides(<< >>, joysticks, 1)]

\* "side = self.stick_ids.get(pygame_id)": left_bindings[button_num] = action
\* or right_bindings[button_num] = action
visual_put(self, pygame_id, button_num, action) ==
    IF pygame_id = None THEN self
    ELSE IF pygame_id[1] \notin DOMAIN self.stick_ids THEN self
    ELSE IF self.stick_ids[pygame_id[1]] = "left"
    THEN [self EXCEPT !.left_bindings = dict_put(@, button_num, action)]
    ELSE IF self.stick_ids[pygame_id[1]] = "right"
    THEN [self EXCEPT !.right_bindings = dict_put(@, button_num, action)]
    ELSE self

\* "if sc_js_number and button_num": None and 0 are both false
visual_route(self, sc_to_pygame_map, binding, parsed) ==
    IF parsed.sc_js_number = None \/ parsed.button = None THEN self
    ELSE IF parsed.sc_js_number[1] = 0 \/ parsed.button[1] = 0 THEN self
    ELSE visual_put(self, sc_to_pygame_map_get(sc_to_pygame_map, parsed.sc_js_number[1]),
                    parsed.button[1], binding.action)

RECURSIVE visual_route_all(_, _, _, _)
visual_route_all(self, sc_to_pygame_map, bindings, i) ==
    IF i > Len(bindings) THEN self
    ELSE visual_route_all(visual_route(self, sc_to_pygame_map, bindings[i],
                                       parse_table[bindings[i].input]),
                          sc_to_pygame_map, bindings, i + 1)

\* DualVisualJoystickView.update_bindings
visual_update_bindings(self, bindings, sc_to_pygame_map) ==
    visual_route_all([self EXCEPT !.left_bindings = << >>, !.right_bindings = << >>],
                     sc_to_pygame_map, bindings, 1)

\* ------------------------------------------------------------------------
\* MainWindow
\* ------------------------------------------------------------------------

MODE_ALL == "ALL"

MODE_COMBAT == "Combat"

MODE_FLIGHT == "Flight"

\* the members of ActionMode
ActionMode == { MODE_ALL, MODE_COMBAT, MODE_FLIGHT }

\* categorize_action: the category of an action name
categorize_action(action) ==
    IF action = V_FIRE THEN MODE_COMBAT
    ELSE IF action = V_BOOST THEN MODE_FLIGHT
    ELSE "Other"

KeepsAction(binding, mode) == categorize_action(binding.action) = mode

RECURSIVE filter_by_mode(_, _, _)
filter_by_mode(current, mode, i) ==
    IF i > Len(current) THEN << >>
    ELSE (IF KeepsAction(current[i], mode) THEN << current[i] >> ELSE << >>)
            \o filter_by_mode(current, mode, i + 1)

\* a mutant of filtered_bindings: the mode ALL is filtered like a category
filtered_bindings_by_category(current, mode) == filter_by_mode(current, mode, 1)

\* "if self.current_mode == ActionMode.ALL: filtered_bindings =
\*  self.current_bindings else: [binding for binding in ... if ...]"
filtered_bindings(current, mode) ==
    IF mode = MODE_ALL THEN current ELSE filter_by_mode(current, mode, 1)

\* hasattr(obj, name) on an object held as a record of its attributes
hasattr(obj, name) == name \in DOMAIN obj

\* "bindings.get('joystick_bindings', [])" under "if bindings:"
joystick_bindings_of(loaded) ==
    IF DOMAIN loaded = {} THEN << >>
    ELSE IF "joystick_bindings" \in DOMAIN loaded THEN loaded.joystick_bindings
    ELSE << >>

\* ------------------------------------------------------------------------
\* State
\* ------------------------------------------------------------------------

VARIABLES
    joysticks,    \* the list of joystick dictionaries handed to set_joysticks
    viz_widget,   \* the DualJoystickView: stick_visualizations, mapping_swapped
    bindings,     \* the list of binding dictionaries handed to update_bindings
    out,          \* what that update_bindings built, printed and returned
    hist,         \* the slot map of the routing pass before, and the swaps since
    last_op,      \* the method called last
    toggles,      \* swap commands since the last routing pass or detection
    parsed,       \* the result of parse_input_string on the token, once parsed
    detected_joysticks,  \* MainWindow.detected_joysticks
    current_bindings,    \* MainWindow.current_bindings
    current_mode,        \* MainWindow.current_mode
    visual_widget,       \* MainWindow.visual_widget, the DualVisualJoystickView
    raised,              \* the exception that left the last MainWindow handler, or ""
    instance             \* what the instance read by the last load_bindings has on disk

main_vars ==
    << detected_joysticks, current_bindings, current_mode, visual_widget, raised, instance >>

vars == << joysticks, viz_widget, bindings, out, hist, last_op, toggles, parsed, main_vars >>

NoOut ==
    [valid |-> FALSE, sc_to_pygame_map |-> <<>>, bindings_per_device |-> <<>>,
     returned |-> None, exc |-> ""]

NoHist == [prev_map |-> None, toggles |-> 0]

Constructed ==
    /\ viz_widget = DualJoystickView
    /\ out = NoOut
    /\ hist = NoHist
    /\ last_op = "__init__"
    /\ toggles = 0
    /\ parsed = None
    /\ detected_joysticks = << >>
    /\ current_bindings = << >>
    /\ current_mode = MODE_ALL
    /\ visual_widget = DualVisualJoystickView
    /\ raised = ""
    /\ instance = NoInstance

\* ------------------------------------------------------------------------
\* Actions
\* ------------------------------------------------------------------------

\* viz_widget.set_joysticks(joysticks)
SetJoysticks ==
    /\ viz_widget' = set_joysticks(viz_widget, joysticks)
    /\ out' = NoOut
    /\ hist' = NoHist
    /\ last_op' = "set_joysticks"
    /\ toggles' = 0
    /\ UNCHANGED << joysticks, bindings, parsed, main_vars >>

\* viz_widget.swap_joystick_mapping()
SwapJoystickMapping ==
    /\ toggles < MaxToggles
    /\ viz_widget' = swap_joystick_mapping(viz_widget)
    /\ hist' = NoHist
    /\ last_op' = "swap_joystick_mapping"
    /\ toggles' = toggles + 1
    /\ UNCHANGED << joysticks, bindings, out, parsed, main_vars >>

Returned(r) ==
    /\ viz_widget' = r.self
    /\ out' = [valid               |-> TRUE,
               sc_to_pygame_map    |-> r.sc_to_pygame_map,
               bindings_per_device |-> r.bindings_per_device,
               returned            |-> r.returned,
               exc                 |-> r.exc]

\* viz_widget.update_bindings(bindings)
UpdateBindings ==
    /\ Returned(update_bindings(viz_widget, bindings))
    /\ hist' = [prev_map |-> IF out.valid THEN Some(out.sc_to_pygame_map) ELSE None,
                toggles  |-> toggles]
    /\ last_op' = "update_bindings"
    /\ toggles' = 0
    /\ UNCHANGED << joysticks, bindings, parsed, main_vars >>

\* parse_input_string(token), the token being the input of the one record
ParseInput ==
    /\ parsed = None
    /\ Len(bindings) = 1
    /\ parsed' = Some(parse_table[bindings[1].input])
    /\ UNCHANGED << joysticks, viz_widget, bindings, out, hist, last_op, toggles, main_vars >>

\* the grid view, called with one detection snapshot and one batch of records
ViewInit == Constructed /\ joysticks \in Snapshots /\ bindings \in Batches

ViewNext ==
    \/ SetJoysticks
    \/ SwapJoystickMapping
    \/ UpdateBindings

ViewSpec == ViewInit /\ [][ViewNext]_vars

\* the parser, and the router on the one record of the token
ParseInit ==
    /\ Constructed
    /\ joysticks = AllJoysticks
    /\ bindings \in { << Binding(V_FIRE, t) >> : t \in Tokens }

ParseNext ==
    \/ ParseInput
    \/ SetJoysticks
    \/ UpdateBindings

ParseSpec == ParseInit /\ [][ParseNext]_vars

\* the grid view, called with batches in which several records name the same
\* control: every action on button 1 of slot 1 and on the x axis of slot 2
DuplicateRecords ==
    { Binding(a, t) : a \in ActionNames, t \in { A_JS1 \o A_BUTTON1, A_JS2_UPPER \o A_X } }

RECURSIVE DuplicateBatchesOfLen(_)
DuplicateBatchesOfLen(n) ==
    IF n = 0 THEN { <<>> }
    ELSE { b \o << r >> : b \in DuplicateBatchesOfLen(n - 1), r \in DuplicateRecords }

DuplicateInit ==
    /\ Constructed
    /\ joysticks \in Snapshots
    /\ bindings \in UNION { DuplicateBatchesOfLen(n) : n \in 0..MaxBatch }

DuplicateSpec == DuplicateInit /\ [][ViewNext]_vars

\* ------------------------------------------------------------------------
\* MainWindow: the handlers of the detect, load, mode and swap events
\* ------------------------------------------------------------------------

\* the handler ran no routing pass: no batch, no slot map, no summary
NoPass == bindings' = << >> /\ out' = NoOut

\* "self.viz_widget.update_bindings(filtered_bindings)", then "if hasattr(
\* self.viz_widget, 'sc_to_pygame_map') and self.viz_widget.sc_to_pygame_map:
\* self.visual_widget.update_bindings(filtered_bindings, ...)"
RoutePass(batch, r) ==
    /\ Returned(r)
    /\ bindings' = batch
    /\ raised' = r.exc
    /\ visual_widget' =
          IF r.exc = "" /\ hasattr(r.self, "sc_to_pygame_map")
          THEN (IF r.self.sc_to_pygame_map # << >>
                THEN visual_update_bindings(visual_widget, batch, r.self.sc_to_pygame_map)
                ELSE visual_widget)
          ELSE visual_widget

\* MainWindow.apply_mode_filter, viz being the grid view as the handler left it:
\* "if not self.current_bindings: return"
ApplyModeFilter(viz, current, mode) ==
    IF current = << >>
    THEN /\ viz_widget' = viz
         /\ raised' = ""
         /\ NoPass
         /\ UNCHANGED visual_widget
    ELSE RoutePass(filtered_bindings(current, mode),
                   update_bindings(viz, filtered_bindings(current, mode)))

\* the two sinks after detect_joysticks: both views are given a non-empty list,
\* the grid view alone an empty one
Detected(snapshot) ==
    /\ joysticks' = snapshot
    /\ detected_joysticks' = snapshot
    /\ viz_widget' = set_joysticks(viz_widget, snapshot)
    /\ visual_widget' = IF snapshot # << >> THEN visual_set_joysticks(visual_widget, snapshot)
                        ELSE visual_widget

\* an exception that leaves a handler is not caught anywhere (main.py installs
\* no excepthook): PyQt6 ends the process, and no further event is handled
Running == raised = ""

\* MainWindow.detect_joysticks
DetectJoysticks ==
    /\ Running
    /\ \E snapshot \in Detections : Detected(snapshot)
    /\ last_op' = "detect_joysticks"
    /\ raised' = ""
    /\ NoPass
    /\ UNCHANGED << hist, toggles, parsed, current_bindings, current_mode, instance >>

\* the rest of MainWindow.load_bindings once the parser has returned (or raised)
Loaded(loaded) ==
    IF loaded.exc # ""
    THEN /\ raised' = loaded.exc
         /\ NoPass
         /\ UNCHANGED << viz_widget, visual_widget, current_bindings >>
    ELSE /\ current_bindings' = joystick_bindings_of(loaded.bindings)
         /\ ApplyModeFilter(viz_widget, joystick_bindings_of(loaded.bindings), current_mode)

\* MainWindow.load_bindings
LoadBindings ==
    /\ Running
    /\ \E profile \in Profiles : instance' = profile /\ Loaded(load_bindings(profile))
    /\ last_op' = "load_bindings"
    /\ UNCHANGED << joysticks, hist, toggles, parsed, detected_joysticks, current_mode >>

\* MainWindow.on_mode_changed
OnModeChanged ==
    /\ Running
    /\ \E mode \in ActionMode :
          /\ current_mode' = mode
          /\ ApplyModeFilter(viz_widget, current_bindings, mode)
    /\ last_op' = "on_mode_changed"
    /\ UNCHANGED << joysticks, hist, toggles, parsed, detected_joysticks, current_bindings,
                    instance >>

\* MainWindow.swap_joysticks
SwapJoysticks ==
    /\ Running
    /\ ApplyModeFilter(swap_joystick_mapping(viz_widget), current_bindings, current_mode)
    /\ last_op' = "swap_joysticks"
    /\ UNCHANGED << joysticks, hist, toggles, parsed, detected_joysticks,
                    current_bindings, current_mode, instance >>

\* MainWindow.__init__: init_ui builds the two views and calls detect_joysticks
Init ==
    /\ \E snapshot \in Detections :
          /\ joysticks = snapshot
          /\ detected_joysticks = snapshot
          /\ viz_widget = set_joysticks(DualJoystickView, snapshot)
          /\ visual_widget = IF snapshot # << >>
                             THEN visual_set_joysticks(DualVisualJoystickView, snapshot)
                             ELSE DualVisualJoystickView
    /\ current_bindings = << >>
    /\ current_mode = MODE_ALL
    /\ bindings = << >>
    /\ out = NoOut
    /\ hist = NoHist
    /\ last_op = "__init__"
    /\ toggles = 0
    /\ parsed = None
    /\ raised = ""
    /\ instance = NoInstance

Next ==
    \/ DetectJoysticks
    \/ LoadBindings
    \/ OnModeChanged
    \/ SwapJoysticks

Spec == Init /\ [][Next]_vars

\* detection with the names free: every device of a snapshot may carry any of
\* the three names, whatever its id
RECURSIVE Renamed(_)
Renamed(snapshot) ==
    IF snapshot = << >> THEN { << >> }
    ELSE { << [Head(snapshot) EXCEPT !.name = n] >> \o rest :
              n \in { NAME_LEFT, NAME_RIGHT, NAME_OTHER }, rest \in Renamed(Tail(snapshot)) }

NamedSnapshots == UNION { Renamed(snapshot) : snapshot \in Snapshots }

\* MainWindow.detect_joysticks over these snapshots
DetectNamed ==
    /\ Running
    /\ \E snapshot \in NamedSnapshots : Detected(snapshot)
    /\ last_op' = "detect_joysticks"
    /\ raised' = ""
    /\ NoPass
    /\ UNCHANGED << hist, toggles, parsed, current_bindings, current_mode, instance >>

\* MainWindow.__init__, then detections
SideInit ==
    /\ \E snapshot \in NamedSnapshots :
          /\ joysticks = snapshot
          /\ detected_joysticks = snapshot
          /\ viz_widget = set_joysticks(DualJoystickView, snapshot)
          /\ visual_widget = IF snapshot # << >>
                             THEN visual_set_joysticks(DualVisualJoystickView, snapshot)
                             ELSE DualVisualJoystickView
    /\ current_bindings = << >>
    /\ current_mode = MODE_ALL
    /\ bindings = << >>
    /\ out = NoOut
    /\ hist = NoHist
    /\ last_op = "__init__"
    /\ toggles = 0
    /\ parsed = None
    /\ raised = ""
    /\ instance = NoInstance

SideSpec == SideInit /\ [][DetectNamed]_vars

\* what a device reports to a poll: at rest, or with its first button held
\* and its first axis at full deflection. The user operates the device with
\* the pygame id 2, which has buttons and axes; the others are at rest.
Reports(viz) ==
    { [down |-> {}, value |-> [a \in 0..(viz.num_axes - 1) |-> 0]] }
       \cup IF viz.joystick_id = 2
            THEN { [down  |-> {0},
                    value |-> [a \in 0..(viz.num_axes - 1) |-> IF a = 0 THEN 100 ELSE 0]] }
            ELSE {}

\* the timer of one visualization fires (every 33 ms, between any two
\* events): poll_joystick of that visualization. A destroyed visualization
\* has no timer, the timer being its child.
PollJoystick ==
    /\ Running
    /\ \E id \in DOMAIN viz_widget.stick_visualizations :
          /\ ~viz_widget.stick_visualizations[id].deleted
          /\ \E report \in Reports(viz_widget.stick_visualizations[id]) :
                viz_widget' = [viz_widget EXCEPT !.stick_visualizations[id] =
                                  poll_joystick(@, report.down, report.value)]
    /\ last_op' = "poll_joystick"
    /\ NoPass
    /\ UNCHANGED << joysticks, hist, toggles, parsed, main_vars >>

\* the handlers with the polling timers between them
PollSpec == Init /\ [][Next \/ PollJoystick]_vars

\* ------------------------------------------------------------------------
\* Properties of the slot map (ViewSpec)
\* ------------------------------------------------------------------------

LiveIds == DOMAIN viz_widget.stick_visualizations

Routed == last_op = "update_bindings"

\* the i-th smallest and the i-th largest element of a set of integers
IthSmallest(S, i) == CHOOSE x \in S : Cardinality({ y \in S : y < x }) = i - 1

IthLargest(S, i) == CHOOSE x \in S : Cardinality({ y \in S : y > x }) = i - 1

\* some button or axis of some device carries a binding
SomethingBound ==
    \E id \in LiveIds :
        \/ \E b \in DOMAIN viz_widget.stick_visualizations[id].button_widgets :
              viz_widget.stick_visualizations[id].button_widgets[b].binding_action # None
        \/ \E a \in DOMAIN viz_widget.stick_visualizations[id].axis_widgets :
              viz_widget.stick_visualizations[id].axis_widgets[a].binding # <<>>

\* C1: for a non-empty set of n live device ids and either value of the swap
\* flag, the slot map update_bindings builds is a bijection from 1..n onto the
\* live ids: its slots are exactly 1..n, its devices are exactly the live ids,
\* and no device has two slots.
C1_SlotMapBijection ==
    (Routed /\ LiveIds # {}) =>
        /\ DOMAIN out.sc_to_pygame_map = 1..Cardinality(LiveIds)
        /\ { out.sc_to_pygame_map[i] : i \in DOMAIN out.sc_to_pygame_map } = LiveIds
        /\ \A i, j \in DOMAIN out.sc_to_pygame_map :
              out.sc_to_pygame_map[i] = out.sc_to_pygame_map[j] => i = j

\* a routing pass over the ids {0, 2}, which are not contiguous, swapped
C1_Witness ==
    /\ Routed
    /\ LiveIds = {0, 2}
    /\ viz_widget.mapping_swapped
    /\ DOMAIN out.sc_to_pygame_map = {1, 2}

\* C2: slot i maps to the i-th smallest live id when the swap flag is false,
\* and to the i-th largest when it is true and at least two devices are live;
\* with fewer than two devices the swapped map is the unswapped one.
C2_SlotOrder ==
    Routed =>
        /\ DOMAIN out.sc_to_pygame_map = 1..Cardinality(LiveIds)
        /\ \A i \in 1..Cardinality(LiveIds) :
              out.sc_to_pygame_map[i] =
                 IF viz_widget.mapping_swapped /\ Cardinality(LiveIds) >= 2
                 THEN IthLargest(LiveIds, i)
                 ELSE IthSmallest(LiveIds, i)

\* the ids {0, 2}: unswapped they would give <<0, 2>>, swapped they give <<2, 0>>
C2_Witness ==
    /\ Routed
    /\ LiveIds = {0, 2}
    /\ viz_widget.mapping_swapped
    /\ out.sc_to_pygame_map = << 2, 0 >>

\* C3: two swap commands between two routing passes over the same device set
\* give the second pass the slot map of the first.
C3_SwapTwice ==
    (Routed /\ hist.prev_map # None /\ hist.toggles = 2) =>
        out.sc_to_pygame_map = hist.prev_map[1]

\* two routing passes over two devices or more, two swaps between them, from
\* the swapped state
C3_Witness ==
    /\ Routed
    /\ hist.prev_map # None
    /\ hist.toggles = 2
    /\ Cardinality(LiveIds) >= 2
    /\ viz_widget.mapping_swapped

\* ------------------------------------------------------------------------
\* Properties of routing (ViewSpec)
\* ------------------------------------------------------------------------

\* the batch without its i-th record
RemoveAt(seq, i) == SubSeq(seq, 1, i - 1) \o SubSeq(seq, i + 1, Len(seq))

\* the slot the i-th record of the batch names, if any
SlotOf(i) == parse_table[bindings[i].input].sc_js_number

\* the records without a slot, those whose slot has no live device, those
\* whose slot has one, and among these the ones with neither button nor axis
NoSlot == { i \in 1..Len(bindings) : SlotOf(i) = None }

Unmapped ==
    { i \in 1..Len(bindings) :
        SlotOf(i) # None /\ SlotOf(i)[1] \notin 1..Cardinality(LiveIds) }

Mapped ==
    { i \in 1..Len(bindings) :
        SlotOf(i) # None /\ SlotOf(i)[1] \in 1..Cardinality(LiveIds) }

NoControl ==
    { i \in Mapped :
        /\ parse_table[bindings[i].input].button = None
        /\ parse_table[bindings[i].input].axis = None }

RECURSIVE SumOver(_, _)
SumOver(f, S) ==
    IF S = {} THEN 0
    ELSE LET n == CHOOSE n \in S : TRUE IN f[n] + SumOver(f, S \ {n})

\* the labels a control can show
Labels == { format_table[a] : a \in ActionNames }

\* every device of the view still has exactly its buttons and axes, each
\* showing no label or the formatted name of an action
WellFormed ==
    \A id \in LiveIds :
        /\ DOMAIN viz_widget.stick_visualizations[id].button_widgets
              = 1..viz_widget.stick_visualizations[id].num_buttons
        /\ DOMAIN viz_widget.stick_visualizations[id].axis_widgets
              = 0..(viz_widget.stick_visualizations[id].num_axes - 1)
        /\ \A b \in DOMAIN viz_widget.stick_visualizations[id].button_widgets :
              viz_widget.stick_visualizations[id].button_widgets[b].binding_action
                 \in {None} \cup { Some(l) : l \in Labels }
        /\ \A a \in DOMAIN viz_widget.stick_visualizations[id].axis_widgets :
              viz_widget.stick_visualizations[id].axis_widgets[a].binding
                 \in {<<>>} \cup Labels

\* C4: a record whose token names a slot greater than the number of live
\* devices (js3 with two devices) is dropped: it is not counted, and routing
\* the batch gives every device the labels, and the summary the counts, that
\* routing the batch without that record gives.
C4_UnmappedSlotDropped ==
    Routed =>
        \A i \in 1..Len(bindings) :
            (SlotOf(i) # None /\ SlotOf(i)[1] > Cardinality(LiveIds)) =>
                /\ SlotOf(i)[1] \notin DOMAIN out.bindings_per_device
                /\ LET without == update_bindings(viz_widget, RemoveAt(bindings, i))
                   IN  /\ without.self = viz_widget
                       /\ without.bindings_per_device = out.bindings_per_device

\* two live devices, a record for slot 3 and another record that is bound
C4_Witness ==
    /\ Routed
    /\ Cardinality(LiveIds) = 2
    /\ Len(bindings) = 2
    /\ \E i \in 1..Len(bindings) : SlotOf(i) = Some(3)
    /\ SomethingBound

C6_RoutingIdempotent ==
    [][(Routed /\ last_op' = "update_bindings") =>
          (viz_widget' = viz_widget /\ out' = out)]_vars

\* a second pass in succession, swapped, with a label on some control
C6_Witness ==
    /\ Routed
    /\ hist.prev_map # None
    /\ hist.toggles = 0
    /\ viz_widget.mapping_swapped
    /\ Cardinality(LiveIds) >= 2
    /\ SomethingBound

Token == bindings[1].input

Lowered == str_lower(Token)

\* the 0-based indexes at which s has "js", and those of them where a digit
\* follows immediately
JsAt(s) == { p \in 0..Len(s) : OccursAt(s, JS, p) }

JsDigitAt(s) == { p \in JsAt(s) : p + 3 <= Len(s) /\ isdigit(s[p + 3]) }

Lowest(S) == CHOOSE p \in S : \A q \in S : p <= q

\* the last place (1-based) of the maximal run of digits of s that starts at a
RunEnd(s, a) ==
    CHOOSE e \in a..Len(s) :
        /\ \A k \in a..e : isdigit(s[k])
        /\ e = Len(s) \/ ~isdigit(s[e + 1])

\* the value of the maximal run of digits that follows the "js" at p
RunValue(s, p) == DecimalValue(SubSeq(s, p + 3, RunEnd(s, p + 3)))

\* C8 as stated: a token with a "js" (in any letter case) that is followed
\* immediately by digits yields the value of that digit run as its slot, also
\* when another "js" occurs earlier in the token.
C8_SlotOfAnyJsDigits ==
    (parsed # None /\ JsDigitAt(Lowered) # {}) =>
        parsed[1].sc_js_number = Some(RunValue(Lowered, Lowest(JsDigitAt(Lowered))))

\* C8: only the first "js" of the token (in any letter case) is looked at.
\* When digits follow it immediately, the slot is the value of that maximal
\* digit run, multi-digit runs included; when none follows it, the slot is
\* absent, whatever comes later in the token.
C8_SlotOfFirstJs ==
    (parsed # None /\ JsAt(Lowered) # {}) =>
        /\ parsed[1].exc = ""
        /\ parsed[1].sc_js_number =
              IF Lowest(JsAt(Lowered)) \in JsDigitAt(Lowered)
              THEN Some(RunValue(Lowered, Lowest(JsAt(Lowered))))
              ELSE None

\* "js10js": a run of two digits after the first of two "js"
C8_Witness ==
    /\ parsed # None
    /\ Token = A_JS1 \o A_0 \o A_JS
    /\ parsed[1].sc_js_number = Some(10)

\* C9 as stated: a token that does not contain "js" as written yields no
\* slot, and routing its record binds nothing.
C9_NoLiteralJsNoSlot ==
    (Len(bindings) = 1 /\ ~str_in(JS, Token)) =>
        /\ parsed # None => parsed[1].sc_js_number = None
        /\ Routed => (~SomethingBound /\ out.bindings_per_device = << >>)

\* C9: a token that does not contain "js" in any letter case yields no slot,
\* and routing its record binds nothing and counts nothing.
C9_NoJsNoSlot ==
    (Len(bindings) = 1 /\ ~str_in(JS, Lowered)) =>
        /\ parsed # None => parsed[1].sc_js_number = None
        /\ Routed => (~SomethingBound /\ out.bindings_per_device = << >>)

\* a token without "js" that names button 1, parsed and routed to live devices
C9_Witness ==
    /\ parsed # None
    /\ Routed
    /\ LiveIds # {}
    /\ ~str_in(JS, Lowered)
    /\ parsed[1].button = Some(1)

RotNames == { AXIS_ROTX, AXIS_ROTY, AXIS_ROTZ }

\* C10 as stated: a token ending in _rotx, _roty or _rotz yields that name.
C10_RotSuffixWins ==
    parsed # None =>
        \A k \in RotNames :
            str_endswith(Lowered, UNDERSCORE \o k) => parsed[1].axis = Some(k)

\* C10: the names are tested in the order rotx, roty, rotz, x, y, z and the
\* first match wins.  A token ending in _rotx, _roty or _rotz yields a name
\* with the rot prefix, never x, y or z: the first of rotx, roty, rotz that
\* follows an underscore anywhere in the token, which is the name the token
\* ends in unless an earlier name of that order occurs before the end.
C10_RotBeforeShort ==
    parsed # None =>
        \A k \in RotNames :
            str_endswith(Lowered, UNDERSCORE \o k) =>
                /\ parsed[1].axis # None
                /\ parsed[1].axis[1] \in RotNames
                /\ parsed[1].axis[1] =
                      IF str_in(UNDERSCORE \o AXIS_ROTX, Lowered) THEN AXIS_ROTX
                      ELSE IF str_in(UNDERSCORE \o AXIS_ROTY, Lowered) THEN AXIS_ROTY
                      ELSE AXIS_ROTZ
                /\ (\A n \in RotNames \ {k} : ~str_in(UNDERSCORE \o n, Lowered))
                      => parsed[1].axis = Some(k)

\* "js1_rotx": the token ends in _rotx, and in x, and yields rotx
C10_Witness ==
    /\ parsed # None
    /\ Token = A_JS1 \o A_ROTX
    /\ parsed[1].axis = Some(AXIS_ROTX)

\* a non-empty run of decimal digits
IsDigits(s) == s # << >> /\ \A k \in 1..Len(s) : isdigit(s[k])

\* s is "js", the digits s[3..a], "_button" and digits to the end
JsButtonFormAt(s, a) ==
    /\ a + 8 <= Len(s)
    /\ SubSeq(s, 1, 2) = JS
    /\ IsDigits(SubSeq(s, 3, a))
    /\ SubSeq(s, a + 1, a + 7) = UNDERSCORE \o BUTTON
    /\ IsDigits(SubSeq(s, a + 8, Len(s)))

\* C11: a token of the form jsN_buttonM, N and M non-empty runs of decimal
\* digits, yields slot N, button M and no axis.
C11_JsButtonForm ==
    parsed # None =>
        \A a \in 3..Len(Lowered) :
            JsButtonFormAt(Lowered, a) =>
                /\ parsed[1].sc_js_number = Some(DecimalValue(SubSeq(Lowered, 3, a)))
                /\ parsed[1].button = Some(DecimalValue(SubSeq(Lowered, a + 8, Len(Lowered))))
                /\ parsed[1].axis = None

\* "js1_button10": slot 1, button 10, no axis
C11_Witness ==
    /\ parsed # None
    /\ Token = A_JS1 \o A_BUTTON1 \o A_0
    /\ parsed[1].sc_js_number = Some(1)
    /\ parsed[1].button = Some(10)
    /\ parsed[1].axis = None

\* absent, or an integer
IsOptInt(v) == v = None \/ (Len(v) = 1 /\ v[1] \in Int)

\* C12: parse_input_string returns for every input string, never raising: a
\* record whose slot and button are absent or an integer and whose axis is
\* absent or one of the six axis names; for the empty string all three are
\* absent.
C12_ParseTotal ==
    parsed # None =>
        /\ parsed[1].exc = ""
        /\ IsOptInt(parsed[1].sc_js_number)
        /\ IsOptInt(parsed[1].button)
        /\ parsed[1].axis \in {None} \cup { Some(axis_names[i]) : i \in 1..Len(axis_names) }
        /\ Token = << >> =>
              /\ parsed[1].sc_js_number = None
              /\ parsed[1].button = None
              /\ parsed[1].axis = None

\* "js_button": "js" and "button" without digits, all three fields absent
C12_Witness ==
    /\ parsed # None
    /\ Token = A_JS \o A_BUTTON
    /\ parsed[1].exc = ""
    /\ parsed[1].sc_js_number = None
    /\ parsed[1].button = None
    /\ parsed[1].axis = None

\* ------------------------------------------------------------------------
\* Properties of swap and routing (ViewSpec)
\* ------------------------------------------------------------------------

\* the devices as the view shows them now, and as it would show them after
\* a swap command and a routing pass over the same batch
Shown == viz_widget.stick_visualizations

Rerouted == update_bindings(swap_joystick_mapping(viz_widget), bindings).self.stick_visualizations

\* device a shows in the view after, on every control it shares with device
\* b, what b shows in the view before
MovedTo(after, before, a, b) ==
    /\ \A n \in (DOMAIN before[a].button_widgets) \cap (DOMAIN before[b].button_widgets) :
          after[a].button_widgets[n].binding_action
             = before[b].button_widgets[n].binding_action
    /\ \A n \in (DOMAIN before[a].axis_widgets) \cap (DOMAIN before[b].axis_widgets) :
          after[a].axis_widgets[n].binding = before[b].axis_widgets[n].binding

\* the two devices exchange what they show
Exchanged(after, before, d1, d2) ==
    /\ DOMAIN after = DOMAIN before
    /\ MovedTo(after, before, d1, d2)
    /\ MovedTo(after, before, d2, d1)

\* C13: with exactly two live devices, a swap command followed by a routing
\* pass over the same batch moves every binding: each device then shows, on
\* the buttons and axes both devices have, what the other showed before.
C13_SwapMovesBindings ==
    (Routed /\ Cardinality(LiveIds) = 2) =>
        LET after == Rerouted
        IN  Exchanged(after, Shown, IthSmallest(LiveIds, 1), IthSmallest(LiveIds, 2))

\* devices 0 and 2, one swap since the pass before: button 1 of device 2 now
\* shows a binding and button 1 of device 0 shows none
C13_Witness ==
    /\ Routed
    /\ LiveIds = {0, 2}
    /\ hist.prev_map # None
    /\ hist.toggles = 1
    /\ viz_widget.mapping_swapped
    /\ Shown[2].button_widgets[1].binding_action # None
    /\ Shown[0].button_widgets[1].binding_action = None

\* ------------------------------------------------------------------------
\* Properties of the MainWindow handlers (Spec)
\* ------------------------------------------------------------------------

\* the last handler was a load, a mode change or a swap and ran a routing pass
PassRan ==
    /\ last_op \in { "load_bindings", "on_mode_changed", "swap_joysticks" }
    /\ out.valid

\* C14: every routing pass of a load, a mode change or a swap, with bindings
\* loaded and a live device, also hands the diagram view the filtered records
\* and the slot map the grid view built: the diagram's left and right
\* bindings are those DualVisualJoystickView.update_bindings makes of them.
C14_DiagramSinkUpdated ==
    (PassRan /\ current_bindings # << >> /\ LiveIds # {}) =>
        visual_widget = visual_update_bindings(visual_widget, bindings, out.sc_to_pygame_map)

\* the first binding file of the instance is not well-formed XML
MalformedLoaded ==
    /\ last_op = "load_bindings"
    /\ instance.path
    /\ instance.files # << >>
    /\ ~instance.files[1].well_formed

\* C15: a malformed binding file propagates no parse failure: the error is
\* caught in parse_binding_file, which returns empty joystick, keyboard and
\* mouse lists, no exception leaves load_bindings, and the window then holds
\* an empty current binding set.
C15_MalformedFileEmpty ==
    MalformedLoaded =>
        /\ parse_binding_file(instance.files[1]).exc = ""
        /\ parse_binding_file(instance.files[1]).bindings = EmptyBindings
        /\ raised = ""
        /\ current_bindings = << >>

\* the malformed file, which has a joystick rebind in its text, has been loaded
C15_Witness ==
    /\ MalformedLoaded
    /\ instance.files[1].rebinds # << >>
    /\ raised = ""
    /\ current_bindings = << >>

\* ------------------------------------------------------------------------
\* Properties of the button and axis fields (ParseSpec)
\* ------------------------------------------------------------------------

AxisNames == { AXIS_ROTX, AXIS_ROTY, AXIS_ROTZ, AXIS_X, AXIS_Y, AXIS_Z }

\* the 0-based indexes at which s has "button"
ButtonAt(s) == { p \in 0..Len(s) : OccursAt(s, BUTTON, p) }

\* a digit follows the first "button" of s
ButtonDigits(s) ==
    /\ ButtonAt(s) # {}
    /\ Lowest(ButtonAt(s)) + 7 <= Len(s)
    /\ isdigit(s[Lowest(ButtonAt(s)) + 7])

\* the axis name n follows an underscore somewhere in s, or ends s
AxisOccurs(s, n) == str_in(UNDERSCORE \o n, s) \/ str_endswith(s, n)

\* the axis name n ends s, with or without an underscore before it
AxisSuffix(s, n) == str_endswith(s, n)

\* C16 as stated: no parse result has both a button ordinal and an axis name.
C16_ButtonAxisExclusive ==
    parsed # None => ~(parsed[1].button # None /\ parsed[1].axis # None)

\* C16: button ordinal and axis name are extracted independently of each
\* other.  The result has both exactly when a digit follows the first "button"
\* of the token and an axis name follows an underscore in it or ends it
\* (js1_button1_x yields button 1 and axis x); it has the button exactly when
\* the first holds and the axis exactly when the second does.
C16_ButtonAxisIndependent ==
    parsed # None =>
        /\ parsed[1].button # None <=> ButtonDigits(Lowered)
        /\ parsed[1].axis # None <=> \E n \in AxisNames : AxisOccurs(Lowered, n)
        /\ (parsed[1].button # None /\ parsed[1].axis # None)
              <=> (ButtonDigits(Lowered) /\ \E n \in AxisNames : AxisOccurs(Lowered, n))

\* "js1_button1_x": button 1 and axis x
C16_Witness ==
    /\ parsed # None
    /\ Token = A_JS1 \o A_BUTTON1 \o A_X
    /\ parsed[1].button = Some(1)
    /\ parsed[1].axis = Some(AXIS_X)

\* C17 as stated: an axis name is yielded only when it is a trailing suffix
\* of the token; a token with "_" and the name in the middle only yields none.
C17_AxisOnlyAsSuffix ==
    (parsed # None /\ parsed[1].axis # None) => AxisSuffix(Lowered, parsed[1].axis[1])

\* C17: an axis name is yielded when it ends the token or follows an
\* underscore anywhere in the token, and only then; a token in which an
\* axis name preceded by an underscore occurs in the middle only yields an
\* axis (js1_x_button1 yields x).
C17_AxisAnywhereAfterUnderscore ==
    parsed # None =>
        /\ parsed[1].axis # None => AxisOccurs(Lowered, parsed[1].axis[1])
        /\ parsed[1].axis = None => \A n \in AxisNames : ~AxisOccurs(Lowered, n)
        /\ ( /\ \E n \in AxisNames : str_in(UNDERSCORE \o n, Lowered)
             /\ \A n \in AxisNames : ~AxisSuffix(Lowered, n) )
              => parsed[1].axis # None

\* "js1_x_button1": "_x" in the middle, no axis name at the end, axis x
C17_Witness ==
    /\ parsed # None
    /\ Token = A_JS1 \o A_X \o A_BUTTON1
    /\ \A n \in AxisNames : ~AxisSuffix(Lowered, n)
    /\ parsed[1].axis = Some(AXIS_X)

\* C18: a token whose "js" (the first one, in any letter case, which is the
\* one the parser reads) has no decimal digit immediately after it yields no
\* slot, not slot 0, and routing its record binds nothing and counts nothing.
C18_JsWithoutDigitsNoSlot ==
    ( /\ Len(bindings) = 1
      /\ JsAt(Lowered) # {}
      /\ Lowest(JsAt(Lowered)) \notin JsDigitAt(Lowered) ) =>
        /\ parsed # None => (parsed[1].sc_js_number = None /\ parsed[1].sc_js_number # Some(0))
        /\ Routed => (~SomethingBound /\ out.bindings_per_device = << >>)

\* "js_x", parsed and routed to live devices: axis x, no slot, nothing bound
C18_Witness ==
    /\ parsed # None
    /\ Routed
    /\ LiveIds # {}
    /\ Token = A_JS \o A_X
    /\ parsed[1].axis = Some(AXIS_X)
    /\ parsed[1].sc_js_number = None
    /\ ~SomethingBound

\* C19: a slot yielded by parse_input_string is an integer of at least 1, and
\* so is a button ordinal.
C19_SlotAndButtonPositive ==
    parsed # None =>
        /\ parsed[1].sc_js_number # None => parsed[1].sc_js_number[1] >= 1
        /\ parsed[1].button # None => parsed[1].button[1] >= 1

\* ------------------------------------------------------------------------
\* Properties of button and axis routing (ViewSpec)
\* ------------------------------------------------------------------------

\* the parse result of the i-th record of the batch
ParsedOf(i) == parse_table[bindings[i].input]

\* the place of an axis name among the axis bars of a device
AxisIndexOf(n) ==
    CASE n = AXIS_X -> 0 [] n = AXIS_Y -> 1 [] n = AXIS_Z -> 2
      [] n = AXIS_ROTX -> 3 [] n = AXIS_ROTY -> 4 [] n = AXIS_ROTZ -> 5

\* the records of the batch whose slot maps to device id
RecordsOf(id) == { i \in Mapped : out.sc_to_pygame_map[SlotOf(i)[1]] = id }

\* those of the parsed records recs with the button ordinal b, and those with
\* no button ordinal and the axis of bar a
ButtonRecords(recs, b) == { i \in DOMAIN recs : recs[i].button = Some(b) }

AxisRecords(recs, a) ==
    { i \in DOMAIN recs :
        /\ recs[i].button = None
        /\ recs[i].axis # None
        /\ AxisIndexOf(recs[i].axis[1]) = a }

\* the labels of a set of records
LabelsOf(recs) == { format_table[bindings[i].action] : i \in recs }

\* the controls of device viz show the records recs, buttons first
ShowsButtonFirst(viz, recs) ==
    /\ \A a \in DOMAIN viz.axis_widgets :
          LET named == AxisRecords(recs, a)
          IN  IF named = {}
              THEN viz.axis_widgets[a].binding = << >>
              ELSE viz.axis_widgets[a].binding \in LabelsOf(named)
    /\ \A b \in DOMAIN viz.button_widgets :
          LET named == ButtonRecords(recs, b)
          IN  IF named = {}
              THEN viz.button_widgets[b].binding_action = None
              ELSE viz.button_widgets[b].binding_action
                      \in { Some(l) : l \in LabelsOf(named) }

\* C20: a record whose token has a button ordinal is applied as a button
\* binding only, also when the token has an axis name as well: an axis bar
\* shows a binding only if a record without button ordinal names it (and
\* then the action of such a record), and the button of every record with
\* a button ordinal the device has shows a binding.
C20_ButtonBeforeAxis ==
    Routed =>
        \A id \in LiveIds :
            LET recs == [i \in RecordsOf(id) |-> ParsedOf(i)]
            IN  ShowsButtonFirst(Shown[id], recs)

\* device 2 has buttons and axes: "js1_button1_x" binds its button 1 and
\* leaves its x axis without binding
C20_Witness ==
    /\ Routed
    /\ LiveIds = {2}
    /\ \E i \in 1..Len(bindings) : bindings[i].input = A_JS1 \o A_BUTTON1 \o A_X
    /\ Shown[2].button_widgets[1].binding_action # None
    /\ Shown[2].axis_widgets[0].binding = << >>


\* ------------------------------------------------------------------------
\* Properties of routing, continued (DuplicateSpec, Spec)
\* ------------------------------------------------------------------------

\* the last of a non-empty set of records, in sequence order
LastOf(recs) == CHOOSE i \in recs : \A j \in recs : j <= i

\* the controls of device viz show, each, the action of the last of the
\* parsed records recs that names it
ShowsLast(viz, recs) ==
    /\ \A b \in DOMAIN viz.button_widgets :
          LET named == ButtonRecords(recs, b)
          IN  named # {} =>
                 viz.button_widgets[b].binding_action
                    = Some(format_table[bindings[LastOf(named)].action])
    /\ \A a \in DOMAIN viz.axis_widgets :
          LET named == AxisRecords(recs, a)
          IN  named # {} =>
                 viz.axis_widgets[a].binding = format_table[bindings[LastOf(named)].action]

\* C21: when several records of the batch route to the same device and the
\* same button ordinal, or the same axis, the control shows after the pass
\* the action of the last of them in sequence order.
C21_LastRecordWins ==
    Routed =>
        \A id \in LiveIds :
            LET recs == [i \in RecordsOf(id) |-> ParsedOf(i)]
            IN  ShowsLast(Shown[id], recs)

\* two records with different actions on the x axis of slot 2, the second
\* of which is shown, on the device of slot 2 when two devices are swapped
C21_Witness ==
    /\ Routed
    /\ viz_widget.mapping_swapped
    /\ bindings = << Binding(V_FIRE, A_JS2_UPPER \o A_X), Binding(V_BOOST, A_JS2_UPPER \o A_X) >>
    /\ LiveIds = {1, 2}
    /\ Shown[1].axis_widgets[0].binding = format_table[V_BOOST]


\* the ids of the most recent detection snapshot: the live devices
DetectedIds == { detected_joysticks[i].id : i \in 1..Len(detected_joysticks) }

\* the records of the batch that the slot map of the pass sends to device id
RoutedTo(id) ==
    { i \in 1..Len(bindings) :
        /\ SlotOf(i) # None
        /\ SlotOf(i)[1] \in DOMAIN out.sc_to_pygame_map
        /\ out.sc_to_pygame_map[SlotOf(i)[1]] = id }

\* a control of device viz carries a binding exactly if one of the parsed
\* records recs names it
Rebuilt(viz, recs) ==
    /\ \A b \in DOMAIN viz.button_widgets :
          viz.button_widgets[b].binding_action # None <=> ButtonRecords(recs, b) # {}
    /\ \A a \in DOMAIN viz.axis_widgets :
          viz.axis_widgets[a].binding # << >> <=> AxisRecords(recs, a) # {}

\* C22: every routing pass rebuilds from scratch: after the pass of a load, a
\* mode change or a swap, a button or axis of a live device carries a binding
\* if and only if a record of the batch of that pass routes to it, whatever
\* earlier batches, swap states and slot maps left on it.
C22_RebuiltFromScratch ==
    PassRan =>
        \A id \in DetectedIds :
            /\ id \in DOMAIN Shown
            /\ LET recs == [i \in RoutedTo(id) |-> ParsedOf(i)]
               IN  Rebuilt(Shown[id], recs)

\* the profile with v_fire on button 1 of slot 1 and v_boost on the x axis of
\* slot 2 is loaded; a change to the mode Flight leaves the axis bound and
\* the button, which the mode ALL binds, unbound
C22_Witness ==
    /\ PassRan
    /\ last_op = "on_mode_changed"
    /\ current_mode = MODE_FLIGHT
    /\ current_bindings = F_BASIC.rebinds
    /\ DetectedIds = {0, 1}
    /\ ~viz_widget.mapping_swapped
    /\ Shown[0].button_widgets[1].binding_action = None
    /\ Shown[1].axis_widgets[0].binding # << >>


\* ------------------------------------------------------------------------
\* Frame properties of the events (PollSpec)
\* ------------------------------------------------------------------------

\* C23: the swap flag is false initially and changes only on the swap
\* command: a detect, load, mode-change or polling event leaves it as it is,
\* and every swap command negates it, also when no bindings are loaded or
\* fewer than two devices are live.
C23_SwapFlagFrame ==
    /\ ~viz_widget.mapping_swapped
    /\ [][IF last_op' = "swap_joysticks"
          THEN viz_widget'.mapping_swapped = ~viz_widget.mapping_swapped
          ELSE viz_widget'.mapping_swapped = viz_widget.mapping_swapped]_vars

\* a swap command with no bindings loaded and one live device has set the flag
C23_Witness ==
    /\ last_op = "swap_joysticks"
    /\ current_bindings = << >>
    /\ Cardinality(DetectedIds) = 1
    /\ viz_widget.mapping_swapped

\* the action each button of each device of the view is bound to, and the
\* binding label of each axis
BoundActions(view) ==
    [id \in DOMAIN view.stick_visualizations |->
        [b \in DOMAIN view.stick_visualizations[id].button_widgets |->
            view.stick_visualizations[id].button_widgets[b].binding_action]]

BindingLabels(view) ==
    [id \in DOMAIN view.stick_visualizations |->
        [a \in DOMAIN view.stick_visualizations[id].axis_widgets |->
            view.stick_visualizations[id].axis_widgets[a].binding]]

\* C27: the polling callback, at whatever point between the detect, load,
\* mode and swap events its timer fires, leaves the action of every button,
\* the binding label of every axis, the swap flag, the device set and the
\* loaded records as they are.
C27_PollingFrame ==
    [][last_op' = "poll_joystick" =>
          /\ BoundActions(viz_widget') = BoundActions(viz_widget)
          /\ BindingLabels(viz_widget') = BindingLabels(viz_widget)
          /\ viz_widget'.mapping_swapped = viz_widget.mapping_swapped
          /\ detected_joysticks' = detected_joysticks
          /\ current_bindings' = current_bindings
          /\ current_mode' = current_mode
          /\ visual_widget' = visual_widget]_vars

\* a poll has found the first button of device 2, which shows a binding,
\* pressed and its first axis at full deflection, with the mapping swapped
C27_Witness ==
    /\ last_op = "poll_joystick"
    /\ current_bindings # << >>
    /\ viz_widget.mapping_swapped
    /\ 2 \in LiveIds
    /\ Shown[2].button_widgets[1].is_pressed
    /\ Shown[2].button_widgets[1].binding_action # None
    /\ Shown[2].axis_widgets[0].bar = 100


\* ------------------------------------------------------------------------
\* Properties of the MainWindow handlers, continued (Spec)
\* ------------------------------------------------------------------------

\* C24: after any sequence of detect, load, mode-change and swap events, the
\* slot map a routing pass uses has no more slots than the most recent
\* detection snapshot has devices and maps to ids of that snapshot only;
\* after a detection that found no devices no record is routed to a device
\* of an earlier snapshot.
C24_SlotMapWithinSnapshot ==
    PassRan =>
        /\ Cardinality(DOMAIN out.sc_to_pygame_map) <= Len(detected_joysticks)
        /\ { out.sc_to_pygame_map[n] : n \in DOMAIN out.sc_to_pygame_map } \subseteq DetectedIds
        /\ detected_joysticks = << >> => out.bindings_per_device = << >>


\* no button and no axis of device viz carries a binding
Unbound(viz) ==
    /\ \A b \in DOMAIN viz.button_widgets : viz.button_widgets[b].binding_action = None
    /\ \A a \in DOMAIN viz.axis_widgets : viz.axis_widgets[a].binding = << >>

\* C25: a load replaces the previous profile wholesale: after every load
\* event the live devices show the bindings routed from the newly loaded
\* records, so that after a load that yields no joystick bindings (no path,
\* no files, a malformed file, a profile without joystick entries) no button
\* and no axis shows a binding.
C25_LoadReplacesDisplay ==
    (last_op = "load_bindings" /\ raised = "") =>
        /\ current_bindings # << >> => PassRan
        /\ current_bindings = << >> =>
              \A id \in DetectedIds : id \in DOMAIN Shown /\ Unbound(Shown[id])


\* the records of the loaded profile the mode selects, in their order
Selected(mode) ==
    SelectSeq(current_bindings,
              LAMBDA binding : mode = MODE_ALL \/ categorize_action(binding.action) = mode)

\* C26: the mode filter is applied upstream of routing and does not alter the
\* loaded profile: the batch of every routing pass is the subsequence, in
\* order, of current_bindings whose action category is the selected mode (all
\* of current_bindings for the mode ALL), a mode change with records loaded
\* runs such a pass, and no mode change alters current_bindings.
C26_ModeFilterUpstream ==
    /\ [](PassRan => bindings = Selected(current_mode))
    /\ []((last_op = "on_mode_changed" /\ current_bindings # << >>) => out.valid)
    /\ [][last_op' = "on_mode_changed" => current_bindings' = current_bindings]_vars

\* a change to the mode Combat with two records loaded, one of which is
\* routed
C26_Witness ==
    /\ PassRan
    /\ last_op = "on_mode_changed"
    /\ current_mode = MODE_COMBAT
    /\ Len(current_bindings) = 2
    /\ Len(bindings) = 1


\* ------------------------------------------------------------------------
\* Properties of the swap command, continued (ViewSpec)
\* ------------------------------------------------------------------------

\* one swap command lies between the routing pass before and this one, over
\* the same device set of two devices or more
SwappedOnce ==
    /\ Routed
    /\ hist.prev_map # None
    /\ hist.toggles = 1
    /\ Cardinality(LiveIds) >= 2

C29_TwoDevicesTwoSides ==
    Len(detected_joysticks) = 2 =>
        /\ DOMAIN visual_widget.stick_ids = DetectedIds
        /\ { visual_widget.stick_ids[id] : id \in DetectedIds } = { "left", "right" }


\* ------------------------------------------------------------------------
\* Properties of detection (PollSpec)
\* ------------------------------------------------------------------------

\* no control of any device of the view carries a binding
NothingShown(view) ==
    \A id \in DOMAIN view.stick_visualizations : Unbound(view.stick_visualizations[id])

\* C30: a detection event that finds at least one device discards all
\* displayed bindings and keeps the loaded records: right after it the view
\* shows exactly the devices of the snapshot, every button and axis unbound,
\* and current_bindings is what it was. A binding appears on a view that
\* shows none only by a load, mode-change or swap event, and the pass of such
\* an event, with a device detected, uses a slot map onto the ids of the
\* snapshot.
C30_DetectionDiscardsDisplay ==
    /\ [][(last_op' = "detect_joysticks" /\ detected_joysticks' # << >>) =>
             /\ DOMAIN viz_widget'.stick_visualizations = DetectedIds'
             /\ NothingShown(viz_widget')
             /\ current_bindings' = current_bindings]_vars
    /\ [][(NothingShown(viz_widget) /\ ~NothingShown(viz_widget')) =>
             last_op' \in { "load_bindings", "on_mode_changed", "swap_joysticks" }]_vars
    /\ []((PassRan /\ detected_joysticks # << >>) =>
             /\ DOMAIN out.sc_to_pygame_map = 1..Len(detected_joysticks)
             /\ { out.sc_to_pygame_map[n] : n \in DOMAIN out.sc_to_pygame_map } = DetectedIds)

\* a detection that finds two devices, with records loaded: nothing is shown
C30_Witness ==
    /\ last_op = "detect_joysticks"
    /\ Len(detected_joysticks) = 2
    /\ current_bindings # << >>
    /\ NothingShown(viz_widget)

====
